---- MODULE Spec2Model ----
(***************************************************************************)
(* Model of the LOVE_APP client: the page controller, the session state    *)
(* and the two API calls of app.js (src/unnamed/part_000).                 *)
(*                                                                         *)
(* JavaScript runs every callback to completion, so one action is one      *)
(* callback: a click handler up to its first await that leaves the event   *)
(* loop (the fetch), or the continuation of a handler after its fetch has  *)
(* settled.  A fetch in flight is an element of startReqs / questionReqs,  *)
(* kept in order of issue; responses may arrive in any order.              *)
(*                                                                         *)
(* The service worker of sw.js runs in its own context; its state is the   *)
(* last four variables and its callbacks are explored in SpecSW.           *)
(*                                                                         *)
(* Text is modelled as a sequence of one-character strings so that trim()  *)
(* is computed, not assumed.                                               *)
(***************************************************************************)
EXTENDS Integers, Sequences, FiniteSets, TLC

\* ---------------------------------------------------------------- bounds
MaxTrimLen == 3         \* longest text typed, where the start flow is explored
MaxInFlight == 2        \* fetches (start and question) in flight at once
MaxHistory == 2         \* question loads (recorded or in flight) in one run

\* ------------------------------------------------------------- constants
Null == "null"
Chars == {" ", "m"}
WhiteSpace == {" "}
\* the fallback label of line 66 (two CJK characters), in ASCII
Fallback == <<"peng", "you">>
\* the loading placeholder of line 52, in ASCII
Placeholder == "loading"
PageKeys == {"home", "rules", "level", "question"}
\* the asset list of cache.addAll
Assets == {"/", "/static/styles.css", "/static/app.js", "/static/manifest.json"}
\* URLs the page requests: the assets, an API call, a file not in the list
Urls == Assets \cup {"/api/question", "/static/icon.png"}
\* keys that name no page
UnknownKeys == {"about", "Home"}
\* data-level values of the level buttons; the server may answer with either
Levels == {"A", "B"}
\* question texts the server may return
Questions == {"Q1", "Q2"}
\* session identifiers the server may return
SessionIds == {"s1", "s2"}

StringsUpTo(n) == UNION {[1..k -> Chars] : k \in 0..n}
\* texts typed into the relationship field where the whole flow is explored:
\* left empty, or a name typed after a space
Inputs == {<<>>, <<" ", "m">>}

VARIABLES
  active,             \* keys of the pages whose classList has "active"
  session_id,         \* state.session_id
  relationship,       \* state.relationship
  level,              \* state.level
  history,            \* state.history
  relationshipLabel,  \* textContent of #relationship-label
  badgeLevel,         \* textContent of #badge-level
  questionText,       \* textContent of #question-text
  startReqs,          \* bodies of the /api/start fetches in flight
  questionReqs,       \* bodies of the /api/question fetches in flight
  overtaken,          \* overtaken[i]: a question fetch issued after fetch i
                      \* has already resolved successfully
  fresh,              \* the question fetch issued last is still in flight
                      \* and no question response has resolved since
  sessionFor,         \* relationship of the start request whose response
                      \* state.session_id comes from
  started,            \* a start call has been made (apiStart was called)
  lastEvent,          \* the callback that ran last, with its inputs
  resolved,           \* question texts of the successful loads, in order
  swState,            \* life cycle state of the service worker
  assetResult,        \* outcome of the fetch of each asset of cache.addAll
  cache,              \* URLs stored in the cache "deepcard-v1"
  served              \* what respondWith answered the last fetch event with

swVars == <<swState, assetResult, cache, served>>

appVars == <<active, session_id, relationship, level, history,
             relationshipLabel, badgeLevel, questionText, startReqs,
             questionReqs, overtaken, fresh, sessionFor, started, lastEvent,
             resolved>>

vars == <<active, session_id, relationship, level, history, relationshipLabel,
          badgeLevel, questionText, startReqs, questionReqs, overtaken,
          fresh, sessionFor, started, lastEvent, resolved, swState,
          assetResult, cache, served>>

\* --------------------------------------------------------------- helpers
RemoveAt(s, i) == [j \in 1..(Len(s) - 1) |-> IF j < i THEN s[j] ELSE s[j + 1]]

RECURSIVE TrimStart(_)
TrimStart(s) ==
  IF s # <<>> /\ Head(s) \in WhiteSpace THEN TrimStart(Tail(s)) ELSE s

RECURSIVE TrimEnd(_)
TrimEnd(s) ==
  IF s # <<>> /\ s[Len(s)] \in WhiteSpace
    THEN TrimEnd(SubSeq(s, 1, Len(s) - 1))
    ELSE s

\* trim() replaced by trimStart(): trailing white space is kept
Trim_startOnly(s) == TrimStart(s)

\* String.prototype.trim
Trim(s) == TrimEnd(TrimStart(s))

\* `LEVEL ${x}`
Badge(x) == <<"LEVEL", x>>

\* type: the callback; arg: its input (typed text, button value, response
\* body with the level and action that were asked for); shown: the key it
\* passed to showPage, Null when it made no call
Event(type, arg, shown) == [type |-> type, arg |-> arg, shown |-> shown]

\* ------------------------------------------------------- page controller
\* showPage without line 9: the class is added, never removed
showPage_noRemove(cur, key) == cur \cup {key}

\* showPage looking the page up before it deactivates the others: the
\* throw on an unknown key leaves the pages as they were
showPage_lookupFirst(cur, key) ==
  IF key \in PageKeys THEN (cur \ PageKeys) \cup {key} ELSE cur

\* showPage(key) when the pages in cur are active: the pages active after
\* the call.  Every page loses the class first; an unknown key then throws
\* on pages[key].classList and no page gets it.
showPage(cur, key) ==
  IF key \in PageKeys THEN (cur \ PageKeys) \cup {key} ELSE cur \ PageKeys

\* showPage(key) throws: pages[key] is undefined (or, for a key inherited
\* from Object.prototype, has no classList) and line 10 reads a property of
\* undefined
showPageThrows(key) == key \notin PageKeys

\* the page each button sits on, after the section comments of bindEvents
\* ("Home -> Rules", "Rules navigation", "Level -> Question", "Question
\* actions") and the names of the two back buttons
ButtonPage ==
  [start |-> "home", backHome |-> "rules", toLevel |-> "rules",
   wheel |-> "level", backRules |-> "level", toLevel2 |-> "question",
   skip |-> "question", done |-> "question"]

\* a button is clicked only while its page is the active one
Clickable(btn) == ButtonPage[btn] \in active

\* ------------------------------------------------------------ API client
\* body of the fetch of apiStart
apiStart(rel) == [relationship |-> rel]

\* apiQuestion leaving the questions already shown out of the body
apiQuestion_noHistory(lvl, action) ==
  [session_id |-> session_id, level |-> lvl, action |-> action,
   history |-> <<>>]

\* body of the fetch of apiQuestion: session_id and history are read from
\* the state when the call is made
apiQuestion(lvl, action) ==
  [session_id |-> session_id, level |-> lvl, action |-> action,
   history |-> history]

Init ==
  \* the markup may or may not give some page the class at load
  /\ \E cur \in SUBSET PageKeys : active = showPage(cur, "home")
  /\ session_id = Null
  /\ relationship = <<>>
  /\ level = "A"
  /\ history = <<>>
  /\ relationshipLabel = <<>>
  /\ badgeLevel = <<>>
  /\ questionText = ""
  /\ startReqs = <<>>
  /\ questionReqs = <<>>
  /\ overtaken = <<>>
  /\ fresh = FALSE
  /\ sessionFor = <<>>
  /\ started = FALSE
  /\ lastEvent = Event("init", Null, "home")
  /\ resolved = <<>>
  /\ swState = "parsed"
  /\ assetResult = [a \in Assets |-> "idle"]
  /\ cache = {}
  /\ served = [url |-> Null, from |-> Null]

\* ------------------------------------------------------------ btn-start
\* a Start click that also begins a fresh history
StartClick_reset(input) ==
  /\ Clickable("start")
  /\ Len(startReqs) + Len(questionReqs) < MaxInFlight
  /\ LET rel == Trim(input) IN
       relationship' = IF rel = <<>> THEN Fallback ELSE rel
  /\ startReqs' = Append(startReqs, apiStart(relationship'))
  /\ history' = <<>>
  /\ started' = TRUE
  /\ UNCHANGED <<fresh, sessionFor>>
  /\ UNCHANGED swVars
  /\ lastEvent' = Event("startClick", input, Null)
  /\ UNCHANGED <<active, session_id, level, relationshipLabel,
                 badgeLevel, questionText, questionReqs, overtaken, resolved>>

\* click on #btn-start, up to the fetch of apiStart
StartClick(input) ==
  /\ Clickable("start")
  /\ Len(startReqs) + Len(questionReqs) < MaxInFlight
  /\ LET rel == Trim(input) IN
       relationship' = IF rel = <<>> THEN Fallback ELSE rel
  /\ startReqs' = Append(startReqs, apiStart(relationship'))
  /\ started' = TRUE
  /\ UNCHANGED <<fresh, sessionFor>>
  /\ UNCHANGED swVars
  /\ lastEvent' = Event("startClick", input, Null)
  /\ UNCHANGED <<active, session_id, level, history, relationshipLabel,
                 badgeLevel, questionText, questionReqs, overtaken, resolved>>

\* the continuation without line 69: the session identifier is dropped
StartOk_noStore(i, sid) ==
  /\ i \in 1..Len(startReqs)
  /\ startReqs' = RemoveAt(startReqs, i)
  /\ relationshipLabel' = relationship
  /\ active' = showPage(active, "rules")
  /\ UNCHANGED <<fresh, sessionFor>>
  /\ UNCHANGED swVars
  /\ lastEvent' = Event("startOk", sid, "rules")
  /\ UNCHANGED <<started, session_id, relationship, level, history,
                 badgeLevel, questionText, questionReqs, overtaken, resolved>>

\* the continuation without line 72: the home page stays
StartOk_noNav(i, sid) ==
  /\ i \in 1..Len(startReqs)
  /\ startReqs' = RemoveAt(startReqs, i)
  /\ session_id' = sid
  /\ relationshipLabel' = relationship
  /\ sessionFor' = startReqs[i].relationship
  /\ UNCHANGED fresh
  /\ UNCHANGED swVars
  /\ lastEvent' = Event("startOk", sid, "rules")
  /\ UNCHANGED <<started, active, relationship, level, history, badgeLevel,
                 questionText, questionReqs, overtaken, resolved>>

\* start fetch i settles with an ok status and the body {session_id: sid}:
\* the handler resumes after line 68.  (res.json() is a second await, but
\* nothing of the state is read or written between the two.)
StartOk(i, sid) ==
  /\ i \in 1..Len(startReqs)
  /\ startReqs' = RemoveAt(startReqs, i)
  /\ session_id' = sid
  /\ relationshipLabel' = relationship
  /\ active' = showPage(active, "rules")
  /\ sessionFor' = startReqs[i].relationship
  /\ UNCHANGED fresh
  /\ UNCHANGED swVars
  /\ lastEvent' = Event("startOk", sid, "rules")
  /\ UNCHANGED <<started, relationship, level, history, badgeLevel,
                 questionText, questionReqs, overtaken, resolved>>

\* a failed start that clears the session and returns to the home page
StartFail_reset(i) ==
  /\ i \in 1..Len(startReqs)
  /\ startReqs' = RemoveAt(startReqs, i)
  /\ session_id' = Null
  /\ active' = showPage(active, "home")
  /\ UNCHANGED <<fresh, sessionFor>>
  /\ UNCHANGED swVars
  /\ lastEvent' = Event("startFail", Null, Null)
  /\ UNCHANGED <<started, relationship, level, history, relationshipLabel,
                 badgeLevel, questionText, questionReqs, overtaken, resolved>>

\* start fetch i settles with a non-ok status (or rejects): apiStart throws,
\* the handler's promise rejects and nothing after line 68 runs
StartFail(i) ==
  /\ i \in 1..Len(startReqs)
  /\ startReqs' = RemoveAt(startReqs, i)
  /\ UNCHANGED <<fresh, sessionFor>>
  /\ UNCHANGED swVars
  /\ lastEvent' = Event("startFail", Null, Null)
  /\ UNCHANGED <<started, active, session_id, relationship, level, history,
                 relationshipLabel, badgeLevel, questionText, questionReqs,
                 overtaken, resolved>>

\* ------------------------------------------------------------ navigation
\* going back to the home page also clears the stored relationship
BackHome_clear ==
  /\ Clickable("backHome")
  /\ active' = showPage(active, "home")
  /\ relationship' = <<>>
  /\ UNCHANGED <<fresh, sessionFor>>
  /\ UNCHANGED swVars
  /\ lastEvent' = Event("backHome", Null, "home")
  /\ UNCHANGED <<started, session_id, level, history, relationshipLabel,
                 badgeLevel, questionText, startReqs, questionReqs, overtaken,
                 resolved>>

BackHome ==
  /\ Clickable("backHome")
  /\ active' = showPage(active, "home")
  /\ UNCHANGED <<fresh, sessionFor>>
  /\ UNCHANGED swVars
  /\ lastEvent' = Event("backHome", Null, "home")
  /\ UNCHANGED <<started, session_id, relationship, level, history,
                 relationshipLabel, badgeLevel, questionText, startReqs,
                 questionReqs, overtaken, resolved>>

ToLevel ==
  /\ Clickable("toLevel")
  /\ relationshipLabel' = relationship
  /\ active' = showPage(active, "level")
  /\ UNCHANGED <<fresh, sessionFor>>
  /\ UNCHANGED swVars
  /\ lastEvent' = Event("toLevel", Null, "level")
  /\ UNCHANGED <<started, session_id, relationship, level, history, badgeLevel,
                 questionText, startReqs, questionReqs, overtaken, resolved>>

BackRules ==
  /\ Clickable("backRules")
  /\ active' = showPage(active, "rules")
  /\ UNCHANGED <<fresh, sessionFor>>
  /\ UNCHANGED swVars
  /\ lastEvent' = Event("backRules", Null, "rules")
  /\ UNCHANGED <<started, session_id, relationship, level, history,
                 relationshipLabel, badgeLevel, questionText, startReqs,
                 questionReqs, overtaken, resolved>>

ToLevel2 ==
  /\ Clickable("toLevel2")
  /\ active' = showPage(active, "level")
  /\ UNCHANGED <<fresh, sessionFor>>
  /\ UNCHANGED swVars
  /\ lastEvent' = Event("toLevel2", Null, "level")
  /\ UNCHANGED <<started, session_id, relationship, level, history,
                 relationshipLabel, badgeLevel, questionText, startReqs,
                 questionReqs, overtaken, resolved>>

\* ------------------------------------------------------- question loading
\* loadNextQuestion without line 52: the old question text stays until the
\* response arrives
loadNextQuestion_noPlaceholder(lvl, action) ==
  /\ Len(startReqs) + Len(questionReqs) < MaxInFlight
  /\ Len(history) + Len(questionReqs) < MaxHistory
  /\ badgeLevel' = Badge(lvl)
  /\ questionText' = questionText
  /\ questionReqs' = Append(questionReqs, apiQuestion(lvl, action))
  /\ overtaken' = Append(overtaken, FALSE)
  /\ fresh' = TRUE

\* loadNextQuestion(action) up to the fetch of apiQuestion; lvl is the value
\* of state.level when it runs
loadNextQuestion(lvl, action) ==
  /\ Len(startReqs) + Len(questionReqs) < MaxInFlight
  /\ Len(history) + Len(questionReqs) < MaxHistory
  /\ badgeLevel' = Badge(lvl)
  /\ questionText' = Placeholder
  /\ questionReqs' = Append(questionReqs, apiQuestion(lvl, action))
  /\ overtaken' = Append(overtaken, FALSE)
  /\ fresh' = TRUE

\* click on the .wheel-btn whose data-level is lvl
WheelClick(lvl) ==
  /\ Clickable("wheel")
  /\ level' = lvl
  /\ active' = showPage(active, "question")
  /\ loadNextQuestion(lvl, Null)
  /\ UNCHANGED sessionFor
  /\ UNCHANGED swVars
  /\ lastEvent' = Event("wheel", lvl, "question")
  /\ UNCHANGED <<started, session_id, relationship, history, relationshipLabel,
                 startReqs, resolved>>

Skip ==
  /\ Clickable("skip")
  /\ loadNextQuestion(level, "skip")
  /\ UNCHANGED sessionFor
  /\ UNCHANGED swVars
  /\ lastEvent' = Event("skip", "skip", Null)
  /\ UNCHANGED <<started, active, session_id, relationship, level, history,
                 relationshipLabel, startReqs, resolved>>

Done ==
  /\ Clickable("done")
  /\ loadNextQuestion(level, "done")
  /\ UNCHANGED sessionFor
  /\ UNCHANGED swVars
  /\ lastEvent' = Event("done", "done", Null)
  /\ UNCHANGED <<started, active, session_id, relationship, level, history,
                 relationshipLabel, startReqs, resolved>>

\* overtaken after fetch i has resolved successfully: the fetches issued
\* before i are marked, i is dropped
Overtake(i) ==
  [j \in 1..(Len(overtaken) - 1) |->
     IF j < i THEN TRUE ELSE overtaken[j + 1]]

\* the continuation recording a question only when it is not yet recorded
QuestionOk_dedup(i, lvl, q) ==
  /\ i \in 1..Len(questionReqs)
  /\ questionReqs' = RemoveAt(questionReqs, i)
  /\ overtaken' = Overtake(i)
  /\ badgeLevel' = Badge(lvl)
  /\ questionText' = q
  /\ history' = IF \E j \in 1..Len(history) : history[j] = q
                  THEN history
                  ELSE Append(history, q)
  /\ resolved' = Append(resolved, q)
  /\ fresh' = FALSE
  /\ UNCHANGED sessionFor
  /\ UNCHANGED swVars
  /\ lastEvent' = Event("questionOk",
                         [level |-> lvl, question |-> q,
                          overtaken |-> overtaken[i],
                          asked |-> [level |-> questionReqs[i].level,
                                     action |-> questionReqs[i].action]],
                         Null)
  /\ UNCHANGED <<started, active, session_id, relationship, level,
                 relationshipLabel, startReqs>>

\* the continuation with a stale-response guard: a response that a later
\* request has overtaken no longer touches the display
QuestionOk_dropStale(i, lvl, q) ==
  /\ i \in 1..Len(questionReqs)
  /\ questionReqs' = RemoveAt(questionReqs, i)
  /\ overtaken' = Overtake(i)
  /\ badgeLevel' = IF overtaken[i] THEN badgeLevel ELSE Badge(lvl)
  /\ questionText' = IF overtaken[i] THEN questionText ELSE q
  /\ history' = Append(history, q)
  /\ resolved' = Append(resolved, q)
  /\ fresh' = FALSE
  /\ UNCHANGED sessionFor
  /\ UNCHANGED swVars
  /\ lastEvent' = Event("questionOk",
                         [level |-> lvl, question |-> q,
                          overtaken |-> overtaken[i],
                          asked |-> [level |-> questionReqs[i].level,
                                     action |-> questionReqs[i].action]],
                         Null)
  /\ UNCHANGED <<started, active, session_id, relationship, level,
                 relationshipLabel, startReqs>>

\* the continuation showing state.level in the badge, not data.level
QuestionOk_stateLevel(i, lvl, q) ==
  /\ i \in 1..Len(questionReqs)
  /\ questionReqs' = RemoveAt(questionReqs, i)
  /\ overtaken' = Overtake(i)
  /\ badgeLevel' = Badge(level)
  /\ questionText' = q
  /\ history' = Append(history, q)
  /\ resolved' = Append(resolved, q)
  /\ fresh' = FALSE
  /\ UNCHANGED sessionFor
  /\ UNCHANGED swVars
  /\ lastEvent' = Event("questionOk",
                         [level |-> lvl, question |-> q,
                          overtaken |-> overtaken[i],
                          asked |-> [level |-> questionReqs[i].level,
                                     action |-> questionReqs[i].action]],
                         Null)
  /\ UNCHANGED <<started, active, session_id, relationship, level,
                 relationshipLabel, startReqs>>

\* the continuation also storing the level the server answered with
QuestionOk_storeLevel(i, lvl, q) ==
  /\ i \in 1..Len(questionReqs)
  /\ questionReqs' = RemoveAt(questionReqs, i)
  /\ overtaken' = Overtake(i)
  /\ badgeLevel' = Badge(lvl)
  /\ questionText' = q
  /\ level' = lvl
  /\ history' = Append(history, q)
  /\ resolved' = Append(resolved, q)
  /\ fresh' = FALSE
  /\ UNCHANGED sessionFor
  /\ UNCHANGED swVars
  /\ lastEvent' = Event("questionOk",
                         [level |-> lvl, question |-> q,
                          overtaken |-> overtaken[i],
                          asked |-> [level |-> questionReqs[i].level,
                                     action |-> questionReqs[i].action]],
                         Null)
  /\ UNCHANGED <<started, active, session_id, relationship,
                 relationshipLabel, startReqs>>

\* question fetch i settles with an ok status and the body
\* {level: lvl, question: q}: the rest of loadNextQuestion
QuestionOk(i, lvl, q) ==
  /\ i \in 1..Len(questionReqs)
  /\ questionReqs' = RemoveAt(questionReqs, i)
  /\ overtaken' = Overtake(i)
  /\ badgeLevel' = Badge(lvl)
  /\ questionText' = q
  /\ history' = Append(history, q)
  /\ resolved' = Append(resolved, q)
  /\ fresh' = FALSE
  /\ UNCHANGED sessionFor
  /\ UNCHANGED swVars
  /\ lastEvent' = Event("questionOk",
                         [level |-> lvl, question |-> q,
                          overtaken |-> overtaken[i],
                          asked |-> [level |-> questionReqs[i].level,
                                     action |-> questionReqs[i].action]],
                         Null)
  /\ UNCHANGED <<started, active, session_id, relationship, level,
                 relationshipLabel, startReqs>>

\* a failed load caught and reported in the question text
QuestionFail_showError(i) ==
  /\ i \in 1..Len(questionReqs)
  /\ questionReqs' = RemoveAt(questionReqs, i)
  /\ overtaken' = RemoveAt(overtaken, i)
  /\ questionText' = "error"
  /\ fresh' = (fresh /\ i # Len(questionReqs))
  /\ UNCHANGED sessionFor
  /\ UNCHANGED swVars
  /\ lastEvent' = Event("questionFail", Null, Null)
  /\ UNCHANGED <<started, active, session_id, relationship, level, history,
                 relationshipLabel, badgeLevel, startReqs, resolved>>

\* question fetch i settles with a non-ok status (or rejects): apiQuestion
\* throws and nothing after line 54 runs
QuestionFail(i) ==
  /\ i \in 1..Len(questionReqs)
  /\ questionReqs' = RemoveAt(questionReqs, i)
  /\ overtaken' = RemoveAt(overtaken, i)
  /\ fresh' = (fresh /\ i # Len(questionReqs))
  /\ UNCHANGED sessionFor
  /\ UNCHANGED swVars
  /\ lastEvent' = Event("questionFail", Null, Null)
  /\ UNCHANGED <<started, active, session_id, relationship, level, history,
                 relationshipLabel, badgeLevel, questionText, startReqs,
                 resolved>>

Next ==
  \/ \E input \in Inputs : StartClick(input)
  \/ \E i \in 1..MaxInFlight, sid \in SessionIds : StartOk(i, sid)
  \/ \E i \in 1..MaxInFlight : StartFail(i)
  \/ BackHome
  \/ ToLevel
  \/ BackRules
  \/ ToLevel2
  \/ \E lvl \in Levels : WheelClick(lvl)
  \/ Skip
  \/ Done
  \/ \E i \in 1..MaxInFlight, lvl \in Levels, q \in Questions :
       QuestionOk(i, lvl, q)
  \/ \E i \in 1..MaxInFlight : QuestionFail(i)

Spec == Init /\ [][Next]_vars

\* The start flow alone (home page, Start, its responses, back to home),
\* with longer texts in the relationship field.
NextStart ==
  \/ \E input \in StringsUpTo(MaxTrimLen) : StartClick(input)
  \/ \E i \in 1..MaxInFlight, sid \in SessionIds : StartOk(i, sid)
  \/ \E i \in 1..MaxInFlight : StartFail(i)
  \/ BackHome

SpecStart == Init /\ [][NextStart]_vars

\* showPage(key) called directly with any key, known or not
ShowPageCall(key) ==
  /\ active' = showPage(active, key)
  /\ UNCHANGED swVars
  /\ lastEvent' = Event("showPage",
                         [key |-> key, threw |-> showPageThrows(key)], key)
  /\ UNCHANGED <<session_id, relationship, level, history, relationshipLabel,
                 badgeLevel, questionText, startReqs, questionReqs, overtaken,
                 fresh, sessionFor, started, resolved>>

\* The start flow and the navigation buttons together with direct calls of
\* showPage.
NextShow ==
  \/ \E input \in Inputs : StartClick(input)
  \/ \E i \in 1..MaxInFlight, sid \in SessionIds : StartOk(i, sid)
  \/ \E i \in 1..MaxInFlight : StartFail(i)
  \/ BackHome
  \/ ToLevel
  \/ BackRules
  \/ ToLevel2
  \/ \E key \in PageKeys \cup UnknownKeys : ShowPageCall(key)

SpecShow == Init /\ [][NextShow]_vars

\* -------------------------------------------------------- service worker
\* the install event: waitUntil(caches.open(...).then(cache.addAll([...])))
\* starts one fetch per asset
InstallEvent ==
  /\ swState = "parsed"
  /\ swState' = "installing"
  /\ assetResult' = [a \in Assets |-> "pending"]
  /\ UNCHANGED <<cache, served>>
  /\ UNCHANGED appVars

\* the fetch of asset a settles: ok is an ok status, otherwise a failure
AssetFetched(a, ok) ==
  /\ swState = "installing"
  /\ assetResult[a] = "pending"
  /\ assetResult' = [assetResult EXCEPT ![a] = IF ok THEN "ok" ELSE "fail"]
  /\ UNCHANGED <<swState, cache, served>>
  /\ UNCHANGED appVars

\* addAll waiting for every fetch to settle and storing those that
\* succeeded, the install succeeding in any case
InstallDone_lenient ==
  /\ swState = "installing"
  /\ \A a \in Assets : assetResult[a] \in {"ok", "fail"}
  /\ cache' = cache \cup {a \in Assets : assetResult[a] = "ok"}
  /\ swState' = "installed"
  /\ UNCHANGED <<assetResult, served>>
  /\ UNCHANGED appVars

\* every asset was fetched: addAll stores them all, its promise fulfils and
\* the worker is installed
InstallDone ==
  /\ swState = "installing"
  /\ \A a \in Assets : assetResult[a] = "ok"
  /\ cache' = cache \cup Assets
  /\ swState' = "installed"
  /\ UNCHANGED <<assetResult, served>>
  /\ UNCHANGED appVars

\* some asset failed: addAll stores nothing, its promise rejects, so does
\* the one given to waitUntil, and the worker is discarded
InstallFail ==
  /\ swState = "installing"
  /\ \E a \in Assets : assetResult[a] = "fail"
  /\ swState' = "redundant"
  /\ UNCHANGED <<assetResult, cache, served>>
  /\ UNCHANGED appVars

\* the installed worker becomes the active one (sw.js has no activate
\* listener)
Activate ==
  /\ swState = "installed"
  /\ swState' = "activated"
  /\ UNCHANGED <<assetResult, cache, served>>
  /\ UNCHANGED appVars

\* undefined, as a response: what caches.match resolves to without a match
NoResponse == [url |-> Null, from |-> Null]

\* caches.match(request): the cached response, undefined when there is none
cachesMatch(url) ==
  IF url \in cache THEN [url |-> url, from |-> "cache"] ELSE NoResponse

\* fetch(request): the response of the network, or its failure
networkFetch(url, netOk) ==
  [url |-> url, from |-> IF netOk THEN "network" ELSE "error"]

\* a fetch handler that also stores what it got from the network
FetchEvent_writeBack(url, netOk) ==
  /\ swState = "activated"
  /\ served' = IF cachesMatch(url) # NoResponse
                 THEN cachesMatch(url)
                 ELSE networkFetch(url, netOk)
  /\ cache' = IF cachesMatch(url) = NoResponse /\ netOk
                THEN cache \cup {url}
                ELSE cache
  /\ UNCHANGED <<swState, assetResult>>
  /\ UNCHANGED appVars

\* a fetch event for url: respondWith(cached || fetch(request)).  Nothing
\* writes the cache while the two promises are pending, so the handler is
\* one step.
FetchEvent(url, netOk) ==
  /\ swState = "activated"
  /\ served' = IF cachesMatch(url) # NoResponse
                 THEN cachesMatch(url)
                 ELSE networkFetch(url, netOk)
  /\ UNCHANGED <<swState, assetResult, cache>>
  /\ UNCHANGED appVars

NextSW ==
  \/ InstallEvent
  \/ \E a \in Assets, ok \in BOOLEAN : AssetFetched(a, ok)
  \/ InstallDone
  \/ InstallFail
  \/ Activate
  \/ \E url \in Urls, netOk \in BOOLEAN : FetchEvent(url, netOk)

SpecSW == Init /\ [][NextSW]_vars

\* ------------------------------------------------------------ properties
Last(s) == s[Len(s)]

\* C1: exactly one of the four pages is active in every reachable state,
\* and right after a callback that called showPage(k) it is page k.
C1_ExactlyOnePageActive ==
  /\ active \subseteq PageKeys
  /\ Cardinality(active) = 1
  /\ lastEvent.shown # Null => active = {lastEvent.shown}

C1_Witness == lastEvent.type = "toLevel2" /\ active = {"level"}

\* C2: with buttons clickable only on the active page, every question
\* request carries a non-null session_id when it is issued.
C2_SessionBeforeQuestion ==
  \A i \in 1..Len(questionReqs) : questionReqs[i].session_id # Null

C2_Witness ==
  /\ lastEvent.type = "wheel"
  /\ Len(startReqs) > 0
  /\ Last(questionReqs).session_id = "s2"

\* C3: when a start call completes successfully, session_id is non-null and
\* is the session_id of that response, the relationship label shows
\* state.relationship and the rules page is the active page.
C3_StartOk ==
  lastEvent.type = "startOk" =>
    /\ session_id # Null
    /\ session_id = lastEvent.arg
    /\ relationshipLabel = relationship
    /\ active = {"rules"}

C3_Witness ==
  /\ lastEvent.type = "startOk"
  /\ lastEvent.arg = "s2"
  /\ relationship = <<"m">>
  /\ Len(history) > 0

\* C4: a failing start call leaves session_id and the active page as they
\* were before the failure was delivered.
C4_StartFail ==
  [][lastEvent'.type = "startFail" =>
       session_id' = session_id /\ active' = active]_vars

C4_Witness ==
  /\ lastEvent.type = "startFail"
  /\ session_id # Null
  /\ active = {"rules"}

\* C5: a successful question load appends exactly the returned question to
\* history, so the length of history is the number of successful loads.
C5_HistoryAppend ==
  /\ [][lastEvent'.type = "questionOk" =>
          history' = Append(history, lastEvent'.arg.question)]_vars
  /\ [](Len(history) = Len(resolved))

C5_Witness ==
  /\ lastEvent.type = "questionOk"
  /\ history = <<"Q2", "Q1">>

\* C6: every step leaves history unchanged or appends one element to it.
C6_AppendOnly ==
  [][\/ history' = history
     \/ \E q \in Questions : history' = Append(history, q)]_vars

C6_Witness ==
  /\ lastEvent.type = "startOk"
  /\ Len(startReqs) > 0
  /\ Len(history) = 2

\* C7 as stated: once a start call has been made, no step changes
\* state.relationship.
C7_RelationshipImmutable ==
  [][started => relationship' = relationship]_vars

\* C7 amended: state.relationship is changed by Start clicks only; no other
\* click and no request completion changes it.
C7_OnlyStartClickChanges ==
  [][relationship' # relationship => lastEvent'.type = "startClick"]_vars

C7_Witness ==
  /\ started
  /\ lastEvent.type = "backHome"
  /\ relationship = <<"m">>
  /\ Len(history) > 0

\* the text consists of white space only (or is empty)
Blank(s) == \A i \in 1..Len(s) : s[i] \in WhiteSpace

\* t is s without its leading and trailing white space
IsTrimOf(t, s) ==
  \E a, b \in 0..Len(s) :
    /\ a + b <= Len(s)
    /\ t = SubSeq(s, a + 1, Len(s) - b)
    /\ \A i \in 1..a : s[i] \in WhiteSpace
    /\ \A i \in (Len(s) - b + 1)..Len(s) : s[i] \in WhiteSpace
    /\ t # <<>> => t[1] \notin WhiteSpace /\ t[Len(t)] \notin WhiteSpace

\* C8: after a Start click the stored relationship is the fallback label
\* for an empty or white-space-only input and the trimmed input otherwise,
\* and the start request just issued carries that stored value.
C8_StoredRelationship ==
  lastEvent.type = "startClick" =>
    /\ Blank(lastEvent.arg) => relationship = Fallback
    /\ ~Blank(lastEvent.arg) => IsTrimOf(relationship, lastEvent.arg)
    /\ startReqs # <<>>
    /\ Last(startReqs) = [relationship |-> relationship]

C8_Witness ==
  /\ lastEvent.type = "startClick"
  /\ lastEvent.arg = <<" ", "m", " ">>
  /\ relationship = <<"m">>

\* C9: a question request carries the session_id, level and whole history
\* of the moment it is issued and the action tag of its trigger: null for a
\* level button, "skip" for Skip, "done" for Done.
C9_RequestBody ==
  lastEvent.type \in {"wheel", "skip", "done"} =>
    /\ questionReqs # <<>>
    /\ Last(questionReqs) =
         [session_id |-> session_id,
          level |-> level,
          action |-> IF lastEvent.type = "wheel" THEN Null ELSE lastEvent.type,
          history |-> history]
    /\ Last(questionReqs).history = resolved

C9_Witness ==
  /\ lastEvent.type = "skip"
  /\ Last(questionReqs) =
       [session_id |-> "s1", level |-> "B", action |-> "skip",
        history |-> <<"Q1">>]

\* C10: question loads overlap; whenever a load resolves successfully the
\* badge and the text are those of that response, also when a request
\* issued later resolved before it, and history holds the returned
\* questions in the order the responses resolved.
C10_LastResolutionWins ==
  /\ lastEvent.type = "questionOk" =>
       /\ badgeLevel = Badge(lastEvent.arg.level)
       /\ questionText = lastEvent.arg.question
  /\ history = resolved

\* two loads were in flight, the one issued first resolved last, both
\* returned the same question
C10_Witness ==
  /\ lastEvent.type = "questionOk"
  /\ lastEvent.arg.overtaken
  /\ lastEvent.arg.level # level
  /\ questionReqs = <<>>
  /\ history = <<"Q1", "Q1">>

\* C11: a failing question request changes neither the question text (the
\* placeholder of that load is not replaced by it) nor the badge, and
\* appends nothing to history.
C11_QuestionFail ==
  [][lastEvent'.type = "questionFail" =>
       /\ questionText' = questionText
       /\ badgeLevel' = badgeLevel
       /\ history' = history]_vars

\* the only load has failed and its placeholder is still shown
C11_Witness ==
  /\ lastEvent.type = "questionFail"
  /\ questionReqs = <<>>
  /\ questionText = Placeholder
  /\ history = <<"Q1">>

\* what a click on the level button lvl leaves behind: the level is stored,
\* the question page is active, the load issued last is for lvl, no action
LevelClicked ==
  lastEvent.type = "wheel" =>
    /\ level = lastEvent.arg
    /\ active = {"question"}
    /\ questionReqs # <<>>
    /\ Last(questionReqs).level = lastEvent.arg
    /\ Last(questionReqs).action = Null

\* a click on a level button issues exactly one question load
OneLoadPerLevelClick ==
  lastEvent'.type = "wheel" => Len(questionReqs') = Len(questionReqs) + 1

\* C12 as stated: a click on the level button L stores L, shows the
\* question page at once and issues exactly one load for L with a null
\* action; while that load is in flight the badge is LEVEL L and the text is
\* the placeholder.
C12_LevelClick ==
  /\ [][OneLoadPerLevelClick]_vars
  /\ [](LevelClicked)
  /\ [](\A i \in 1..Len(questionReqs) :
          questionReqs[i].action = Null =>
            /\ badgeLevel = Badge(questionReqs[i].level)
            /\ questionText = Placeholder)

\* C12 amended: the badge and the placeholder of the click stay while that
\* load is in flight, provided no question load was started after it and no
\* question response has resolved successfully since the click.
C12_LevelClickUndisturbed ==
  /\ [][OneLoadPerLevelClick]_vars
  /\ [](LevelClicked)
  /\ [](fresh =>
          /\ questionReqs # <<>>
          /\ Last(questionReqs).action = Null =>
               /\ badgeLevel = Badge(Last(questionReqs).level)
               /\ questionText = Placeholder)

\* the load of level B is in flight, the user has gone back to the level
\* page, badge and placeholder are still those of the click
C12_Witness ==
  /\ lastEvent.type = "toLevel2"
  /\ fresh
  /\ Last(questionReqs).action = Null
  /\ Last(questionReqs).level = "B"
  /\ history # <<>>

\* C13: when the load issued by a level click resolves successfully, the
\* badge is LEVEL followed by the level of the response, whatever level
\* was picked, and the text is the question of the response.
C13_ServerLevelShown ==
  (lastEvent.type = "questionOk" /\ lastEvent.arg.asked.action = Null) =>
    /\ badgeLevel = Badge(lastEvent.arg.level)
    /\ questionText = lastEvent.arg.question

\* level B was picked and requested, the server answered with level A
C13_Witness ==
  /\ lastEvent.type = "questionOk"
  /\ lastEvent.arg.asked.action = Null
  /\ lastEvent.arg.asked.level = "B"
  /\ level = "B"
  /\ lastEvent.arg.level = "A"
  /\ badgeLevel = Badge("A")

\* C19: the completion of a question load, successful or not, leaves the
\* active page, session_id, relationship and level as they were.
C19_LoadCompletionFrame ==
  [][lastEvent'.type \in {"questionOk", "questionFail"} =>
       /\ active' = active
       /\ session_id' = session_id
       /\ relationship' = relationship
       /\ level' = level]_vars

\* the response arrived after the user went back to the level page; it
\* carries a level other than the one picked, and was recorded
C19_Witness ==
  /\ lastEvent.type = "questionOk"
  /\ active = {"level"}
  /\ lastEvent.arg.level # level
  /\ lastEvent.arg.asked.level = level
  /\ Last(history) = lastEvent.arg.question

\* the callbacks that are clicks on a button of page p
ClicksOn(p) ==
  CASE p = "home" -> {"startClick"}
    [] p = "rules" -> {"backHome", "toLevel"}
    [] p = "level" -> {"wheel", "backRules"}
    [] p = "question" -> {"toLevel2", "skip", "done"}

\* C17: the active page changes only from home to rules on a successful
\* start response, and by a click on the active page from rules to home,
\* rules to level, level to rules, level to question, question to level.
C17_NavigationEdges ==
  [][active' # active =>
       \E p, q \in PageKeys :
         /\ active = {p}
         /\ active' = {q}
         /\ \/ p = "home" /\ q = "rules" /\ lastEvent'.type = "startOk"
            \/ /\ <<p, q>> \in {<<"rules", "home">>, <<"rules", "level">>,
                                <<"level", "rules">>, <<"level", "question">>,
                                <<"question", "level">>}
               /\ lastEvent'.type \in ClicksOn(p)]_vars

\* C18: on every page but home, session_id comes from the response to a
\* start request made for the current state.relationship.
C18_SessionMatchesRelationship ==
  active # {"home"} => sessionFor = relationship

\* C16: showPage with a key that names no page throws, and no page is
\* active after the failed call.
C16_UnknownKey ==
  (lastEvent.type = "showPage" /\ lastEvent.arg.key \notin PageKeys) =>
    /\ lastEvent.arg.threw
    /\ active = {}

\* the rules page was active (a session exists) when the call failed
C16_Witness ==
  /\ lastEvent.type = "showPage"
  /\ lastEvent.arg.key = "about"
  /\ active = {}
  /\ session_id # Null
  /\ startReqs # <<>>

\* C14: a fetch event is answered from the cache when the cache has the
\* URL and from the network otherwise, and leaves the cache as it is; once
\* the worker is installed the cache never changes.
C14_CacheFirstNoWriteBack ==
  /\ [][served' # served =>
          /\ cache' = cache
          /\ served'.url \in cache => served'.from = "cache"
          /\ served'.url \notin cache =>
               served'.from \in {"network", "error"}]_vars
  /\ [][(swState \in {"installed", "activated"}) => cache' = cache]_vars

\* a file that is not in the cache was fetched from the network and the
\* cache still holds the four assets only
C14_Witness ==
  /\ swState = "activated"
  /\ served = [url |-> "/static/icon.png", from |-> "network"]
  /\ cache = Assets

\* C15: the worker is installed only when all four assets were fetched,
\* and then the cache holds exactly these four; when an asset failed the
\* worker is never installed or active, and the cache stays empty.
C15_InstallAllOrNothing ==
  /\ swState \in {"installed", "activated"} =>
       /\ cache = Assets
       /\ \A a \in Assets : assetResult[a] = "ok"
  /\ (\E a \in Assets : assetResult[a] = "fail") =>
       /\ swState \in {"installing", "redundant"}
       /\ cache = {}
  /\ swState = "redundant" => \E a \in Assets : assetResult[a] = "fail"

\* three assets were fetched, the fourth failed, the install failed
C15_Witness ==
  /\ swState = "redundant"
  /\ Cardinality({a \in Assets : assetResult[a] = "ok"}) = 3
  /\ cache = {}

====
